---- MODULE Spec2Model ----
(***************************************************************************)
(* HORP Bot menu filtering engine (src/engine.js) and its HTTP handler     *)
(* (src/server.js).                                                        *)
(*                                                                         *)
(* Data representation.  A JavaScript array that the code only filters,    *)
(* tests with includes() and joins into one reason string (the allergen    *)
(* and flag lists of a component, a modification's trigger lists, the      *)
(* profile's avoid/tolerate lists, an item's tags and cross-contact list)  *)
(* is a set here; an array whose order or length the code exposes (the     *)
(* catalog, an item's components and modifications, the result buckets,    *)
(* the reason list, the dietary preferences) is a sequence.  A reason      *)
(* string is the record of the values interpolated into it.  An absent     *)
(* optional field is the empty set / empty sequence / FALSE, as the        *)
(* code's `|| []` defaults read it.                                        *)
(***************************************************************************)
EXTENDS Integers, Sequences, FiniteSets, TLC

\* ------------------------------------------------------------------------
\* Bounds of the model
\* ------------------------------------------------------------------------
MaxItems == 2      \* items in the catalog
MaxComps == 2      \* components per item
MaxMods == 2       \* modifications per item

\* ------------------------------------------------------------------------
\* Fixed tables of the engine
\* ------------------------------------------------------------------------

\* engine.js isRelatedToAllergen: relations[allergen] || []
relations(allergen) ==
  CASE allergen = "sesame" -> {"sesame_seed", "sesame_oil"}
    [] allergen = "peanut" -> {"peanut_oil"}
    [] allergen = "gluten" -> {"soy_sauce"}
    [] allergen = "shellfish" -> {"oyster_sauce"}
    [] OTHER -> {}

isRelatedToAllergen(flag, allergen) == flag \in relations(allergen)

\* engine.js filterByTolerance: the allergens that have a toleranceMapping entry
MappedAllergens == {"gluten", "shellfish", "peanut", "sesame"}

\* toleranceMapping[allergen].flag
toleranceMapping(allergen) ==
  CASE allergen = "gluten" -> "soy_sauce"
    [] allergen = "shellfish" -> "oyster_sauce"
    [] allergen = "peanut" -> "peanut_oil"
    [] allergen = "sesame" -> "sesame_oil"

\* ------------------------------------------------------------------------
\* Reason strings
\* ------------------------------------------------------------------------
Reason(kind, component, what) ==
  [kind |-> kind, component |-> component, what |-> what]

NoReasons == << >>

\* ------------------------------------------------------------------------
\* checkDietaryCompliance: [ok, reasons]; stops at the first preference failed
\* ------------------------------------------------------------------------
RECURSIVE DietaryLoop(_, _, _)
DietaryLoop(item, dietaryPreferences, k) ==
  IF k > Len(dietaryPreferences) THEN [ok |-> TRUE, reasons |-> NoReasons]
  ELSE IF dietaryPreferences[k] = "vegetarian" /\ "vegetarian" \notin item.tags
    THEN [ok |-> FALSE, reasons |-> << Reason("not_vegetarian", "", {}) >>]
  ELSE IF dietaryPreferences[k] = "vegan" /\ "vegan" \notin item.tags
    THEN [ok |-> FALSE, reasons |-> << Reason("not_vegan", "", {}) >>]
  ELSE DietaryLoop(item, dietaryPreferences, k + 1)

checkDietaryCompliance(item, dietaryPreferences) ==
  IF Len(dietaryPreferences) = 0 THEN [ok |-> TRUE, reasons |-> NoReasons]
  ELSE DietaryLoop(item, dietaryPreferences, 1)

\* ------------------------------------------------------------------------
\* isAllergenTolerable
\* ------------------------------------------------------------------------
\* as isAllergenTolerable, but the tolerated form need not be declared on
\* the component
isAllergenTolerableAnywhere(component, allergen, tolerateFlags) ==
  \E flag \in tolerateFlags : isRelatedToAllergen(flag, allergen)

isAllergenTolerable(component, allergen, tolerateFlags) ==
  IF tolerateFlags = {} THEN FALSE
  ELSE LET toleratedFormsOfAllergen ==
             {flag \in tolerateFlags : isRelatedToAllergen(flag, allergen)}
       IN \E toleratedFlag \in toleratedFormsOfAllergen :
             toleratedFlag \in component.contains_ingredient_flags

\* ------------------------------------------------------------------------
\* The body of the forEach over components, in checkCompliance (informational
\* = TRUE: the tolerated-form reason is pushed) and in
\* checkComplianceOnComponents (informational = FALSE: it has no such branch)
\* ------------------------------------------------------------------------
forbiddenAllergensOf(component, allergies) ==
  {allergen \in component.contains_allergens : allergen \in allergies}

tolerableAllergensOf(component, allergies, tolerateFlags) ==
  {allergen \in forbiddenAllergensOf(component, allergies) :
      isAllergenTolerable(component, allergen, tolerateFlags)}

intolerableaOf(component, allergies, tolerateFlags) ==
  forbiddenAllergensOf(component, allergies)
     \ tolerableAllergensOf(component, allergies, tolerateFlags)

forbiddenFlagsOf(component, avoidIngredientFlags) ==
  {flag \in component.contains_ingredient_flags : flag \in avoidIngredientFlags}

ComponentAllergenReasons(component, allergies, tolerateFlags, informational) ==
  IF forbiddenAllergensOf(component, allergies) = {} THEN NoReasons
  ELSE IF intolerableaOf(component, allergies, tolerateFlags) # {}
    THEN << Reason("intolerable", component.name,
                   intolerableaOf(component, allergies, tolerateFlags)) >>
  ELSE IF informational
          /\ tolerableAllergensOf(component, allergies, tolerateFlags) # {}
    THEN << Reason("tolerated_form", component.name,
                   tolerableAllergensOf(component, allergies, tolerateFlags)) >>
  ELSE NoReasons

ComponentFlagReasons(component, avoidIngredientFlags) ==
  IF forbiddenFlagsOf(component, avoidIngredientFlags) # {}
    THEN << Reason("ingredient_flag", component.name,
                   forbiddenFlagsOf(component, avoidIngredientFlags)) >>
    ELSE NoReasons

\* as ComponentHasIssue, but a tolerated flag is exempt from the avoided flags
ComponentHasIssueFlagsExempt(component, allergies, avoidIngredientFlags, tolerateFlags) ==
  \/ intolerableaOf(component, allergies, tolerateFlags) # {}
  \/ forbiddenFlagsOf(component, avoidIngredientFlags) \ tolerateFlags # {}

ComponentHasIssue(component, allergies, avoidIngredientFlags, tolerateFlags) ==
  \/ intolerableaOf(component, allergies, tolerateFlags) # {}
  \/ forbiddenFlagsOf(component, avoidIngredientFlags) # {}

RECURSIVE ComponentsReasons(_, _, _, _, _, _)
ComponentsReasons(components, k, allergies, avoidIngredientFlags, tolerateFlags, informational) ==
  IF k > Len(components) THEN NoReasons
  ELSE ComponentAllergenReasons(components[k], allergies, tolerateFlags,
                                informational)
       \o ComponentFlagReasons(components[k], avoidIngredientFlags)
       \o ComponentsReasons(components, k + 1, allergies, avoidIngredientFlags,
                            tolerateFlags, informational)

ComponentsHaveIssue(components, allergies, avoidIngredientFlags, tolerateFlags) ==
  \E k \in 1..Len(components) :
     ComponentHasIssue(components[k], allergies, avoidIngredientFlags,
                       tolerateFlags)

\* the cross-contact block shared by both checks
forbiddenRisksOf(crossContactRisk, allergies, crossContactOk) ==
  IF ~crossContactOk /\ crossContactRisk # {}
    THEN {risk \in crossContactRisk : risk \in allergies}
    ELSE {}

CrossContactReasons(crossContactRisk, allergies, crossContactOk) ==
  IF forbiddenRisksOf(crossContactRisk, allergies, crossContactOk) # {}
    THEN << Reason("cross_contact", "",
                   forbiddenRisksOf(crossContactRisk, allergies, crossContactOk)) >>
    ELSE NoReasons

\* ------------------------------------------------------------------------
\* checkCompliance: [ok, reasons]
\* ------------------------------------------------------------------------
checkCompliance(item, allergies, avoidIngredientFlags, crossContactOk, tolerateFlags) ==
  IF allergies = {} /\ avoidIngredientFlags = {}
    THEN [ok |-> TRUE, reasons |-> NoReasons]
    ELSE [ok |-> ~ ( \/ ComponentsHaveIssue(item.components, allergies,
                                             avoidIngredientFlags, tolerateFlags)
                     \/ forbiddenRisksOf(item.cross_contact_risk, allergies,
                                         crossContactOk) # {} ),
          reasons |->
             ComponentsReasons(item.components, 1, allergies,
                               avoidIngredientFlags, tolerateFlags, TRUE)
             \o CrossContactReasons(item.cross_contact_risk, allergies,
                                    crossContactOk)]

\* ------------------------------------------------------------------------
\* checkComplianceOnComponents: [ok, reasons]
\* ------------------------------------------------------------------------
\* as checkComplianceOnComponents, but without the cross-contact block
checkComplianceOnComponentsNoCross(components, crossContactRisk, allergies, avoidIngredientFlags, crossContactOk, tolerateFlags) ==
  IF allergies = {} /\ avoidIngredientFlags = {}
    THEN [ok |-> TRUE, reasons |-> NoReasons]
    ELSE [ok |-> ~ComponentsHaveIssue(components, allergies,
                                      avoidIngredientFlags, tolerateFlags),
          reasons |->
             ComponentsReasons(components, 1, allergies, avoidIngredientFlags,
                               tolerateFlags, FALSE)]

checkComplianceOnComponents(components, crossContactRisk, allergies, avoidIngredientFlags, crossContactOk, tolerateFlags) ==
  IF allergies = {} /\ avoidIngredientFlags = {}
    THEN [ok |-> TRUE, reasons |-> NoReasons]
    ELSE [ok |-> ~ ( \/ ComponentsHaveIssue(components, allergies,
                                             avoidIngredientFlags, tolerateFlags)
                     \/ forbiddenRisksOf(crossContactRisk, allergies,
                                         crossContactOk) # {} ),
          reasons |->
             ComponentsReasons(components, 1, allergies, avoidIngredientFlags,
                               tolerateFlags, FALSE)
             \o CrossContactReasons(crossContactRisk, allergies, crossContactOk)]

\* ------------------------------------------------------------------------
\* Working copies.  A component list is either the array the catalog item
\* holds (shared = TRUE) or a detached copy (shared = FALSE).
\* JSON.parse(JSON.stringify(x)) builds a detached copy.
\* ------------------------------------------------------------------------
CatalogComponents(item) == [shared |-> TRUE, components |-> item.components]

\* as JSONCopy, but the same array is handed back
JSONAlias(list) == list

JSONCopy(list) == [shared |-> FALSE, components |-> list.components]

\* ------------------------------------------------------------------------
\* applyModification
\* ------------------------------------------------------------------------
SubstitutedComponent(modification) ==
  [name |-> modification.target_component,
   contains_allergens |-> {},
   contains_ingredient_flags |-> {}]

applyModification(list, modification) ==
  LET effectiveComponents == JSONCopy(list) IN
  IF modification.action = "remove"
    THEN [effectiveComponents EXCEPT !.components =
            SelectSeq(@, LAMBDA comp : comp.name # modification.target_component)]
  ELSE IF modification.action = "substitute"
    THEN [effectiveComponents EXCEPT !.components =
            [k \in DOMAIN @ |->
               IF @[k].name = modification.target_component
                 THEN SubstitutedComponent(modification)
                 ELSE @[k]]]
  ELSE effectiveComponents

\* ------------------------------------------------------------------------
\* getApplicableModifications, and the same filter inlined in
\* canModificationsMakeItemSafe
\* ------------------------------------------------------------------------
isTriggered(mod, allergies, avoidIngredientFlags) ==
  \/ /\ mod.when.avoid_allergens # {}
     /\ \E allergen \in mod.when.avoid_allergens : allergen \in allergies
  \/ /\ mod.when.avoid_ingredient_flags # {}
     /\ \E flag \in mod.when.avoid_ingredient_flags : flag \in avoidIngredientFlags

getApplicableModifications(item, allergies, avoidIngredientFlags) ==
  SelectSeq(item.modifications,
            LAMBDA mod : isTriggered(mod, allergies, avoidIngredientFlags))

applicableModsOf(item, allergies, avoidIngredientFlags) ==
  SelectSeq(item.modifications,
            LAMBDA mod : isTriggered(mod, allergies, avoidIngredientFlags))

\* as ApplyAll, but each modification is applied to the list as it was, and
\* the last result kept
ApplyEachAlone(list, mods, k) ==
  IF k > Len(mods) THEN list ELSE applyModification(list, mods[Len(mods)])

\* for (const mod of applicableMods) effectiveComponents = applyModification(...)
RECURSIVE ApplyAll(_, _, _)
ApplyAll(list, mods, k) ==
  IF k > Len(mods) THEN list
  ELSE ApplyAll(applyModification(list, mods[k]), mods, k + 1)

\* ------------------------------------------------------------------------
\* canModificationsMakeItemSafe: [isNowSafe, effective]; effective is the
\* component list the resolver wrote (the catalog's own list when it wrote
\* nothing)
\* ------------------------------------------------------------------------
\* as canModificationsMakeItemSafe, but without the re-check of the modified
\* component list: any triggered modification makes the item rescuable
canModificationsMakeItemSafeNoRecheck(item, allergies, avoidIngredientFlags, crossContactOk, tolerateFlags) ==
  IF Len(applicableModsOf(item, allergies, avoidIngredientFlags)) = 0
    THEN [isNowSafe |-> FALSE, effective |-> CatalogComponents(item)]
  ELSE [isNowSafe |-> TRUE,
        effective |->
          ApplyAll(JSONCopy(CatalogComponents(item)),
                   applicableModsOf(item, allergies, avoidIngredientFlags), 1)]

canModificationsMakeItemSafe(item, allergies, avoidIngredientFlags, crossContactOk, tolerateFlags) ==
  IF Len(item.modifications) = 0
    THEN [isNowSafe |-> FALSE, effective |-> CatalogComponents(item)]
  ELSE IF Len(applicableModsOf(item, allergies, avoidIngredientFlags)) = 0
    THEN [isNowSafe |-> FALSE, effective |-> CatalogComponents(item)]
  ELSE
    LET effectiveComponents ==
          ApplyAll(JSONCopy(CatalogComponents(item)),
                   applicableModsOf(item, allergies, avoidIngredientFlags), 1)
    IN [isNowSafe |->
          checkComplianceOnComponents(effectiveComponents.components,
                                      item.cross_contact_risk, allergies,
                                      avoidIngredientFlags, crossContactOk,
                                      tolerateFlags).ok,
        effective |-> effectiveComponents]

\* ------------------------------------------------------------------------
\* filterByDietaryAndAllergies, one item: the verdict, the buckets it is
\* pushed to, and the item's component list in the catalog afterwards
\* ------------------------------------------------------------------------
\* as Categorize, but with three separate ifs instead of one if/else chain
BucketsTwoIfs(isDietaryCompliant, isCompliant, canBeModifiedToSafe) ==
  (IF isDietaryCompliant /\ isCompliant THEN {"safe"} ELSE {})
  \cup (IF canBeModifiedToSafe THEN {"canBeModified"} ELSE {})
  \cup (IF ~isCompliant /\ ~canBeModifiedToSafe THEN {"filtered"} ELSE {})

Categorize(isDietaryCompliant, isCompliant, canBeModifiedToSafe) ==
  IF isDietaryCompliant /\ isCompliant THEN {"safe"}
  ELSE IF canBeModifiedToSafe THEN {"canBeModified"}
  ELSE {"filtered"}

EvaluateItem(item, dietaryPreferences, allergies, avoidIngredientFlags, crossContactOk, tolerateFlags) ==
  LET dietary == checkDietaryCompliance(item, dietaryPreferences)
      compliance == checkCompliance(item, allergies, avoidIngredientFlags,
                                    crossContactOk, tolerateFlags)
      tryMods == ~compliance.ok /\ Len(item.modifications) > 0
      resolved == IF tryMods
                    THEN canModificationsMakeItemSafe(item, allergies,
                            avoidIngredientFlags, crossContactOk, tolerateFlags)
                    ELSE [isNowSafe |-> FALSE,
                          effective |-> CatalogComponents(item)]
      canBeModifiedToSafe == resolved.isNowSafe
      applicableMods == IF canBeModifiedToSafe
                          THEN getApplicableModifications(item, allergies,
                                                          avoidIngredientFlags)
                          ELSE << >>
      buckets == Categorize(dietary.ok, compliance.ok, canBeModifiedToSafe)
  IN [buckets |-> buckets,
      itemStatus |->
        [id |-> item.id,
         reasons |-> dietary.reasons \o compliance.reasons,
         modifications |-> IF "canBeModified" \in buckets
                             THEN applicableMods ELSE << >>,
         tolerance_notes |-> {},
         toleranceAllowed |-> FALSE],
      componentsAfter |-> IF resolved.effective.shared
                            THEN resolved.effective.components
                            ELSE item.components]

\* results.<bucket>: the verdicts pushed to it, in catalog order
RECURSIVE Bucket(_, _, _, _)
Bucket(menu, p, bucket, k) ==
  IF k > Len(menu) THEN << >>
  ELSE LET e == EvaluateItem(menu[k], p.dietaryPreferences, p.avoidAllergens,
                             p.avoidIngredientFlags, p.crossContactOk,
                             p.tolerateFlags)
       IN (IF bucket \in e.buckets THEN << e.itemStatus >> ELSE << >>)
          \o Bucket(menu, p, bucket, k + 1)

filterByDietaryAndAllergies(menu, p) ==
  [safe |-> Bucket(menu, p, "safe", 1),
   filtered |-> Bucket(menu, p, "filtered", 1),
   canBeModified |-> Bucket(menu, p, "canBeModified", 1)]

\* the catalog after one run of filterByDietaryAndAllergies
MenuAfterFilter(menu, p) ==
  [k \in DOMAIN menu |->
     [menu[k] EXCEPT !.components =
        EvaluateItem(menu[k], p.dietaryPreferences, p.avoidAllergens,
                     p.avoidIngredientFlags, p.crossContactOk,
                     p.tolerateFlags).componentsAfter]]

\* ------------------------------------------------------------------------
\* checkIfOnlyTolerablyPresent
\* ------------------------------------------------------------------------
\* as checkIfOnlyTolerablyPresent, but other related forms on the component
\* are not looked at
checkIfTolerablyPresent(item, allergen, tolerableFlag) ==
  \A k \in 1..Len(item.components) :
     allergen \in item.components[k].contains_allergens
       => tolerableFlag \in item.components[k].contains_ingredient_flags

checkIfOnlyTolerablyPresent(item, allergen, tolerableFlag) ==
  \A k \in 1..Len(item.components) :
     LET component == item.components[k]
         flags == component.contains_ingredient_flags
         hasOtherForms ==
           {f \in flags : f # tolerableFlag /\ isRelatedToAllergen(f, allergen)} # {}
     IN allergen \in component.contains_allergens
          => (~hasOtherForms /\ tolerableFlag \in flags)

\* ------------------------------------------------------------------------
\* filterByTolerance.  tolerances = [keys, yes]: the allergens the object has
\* an entry for, and those whose entry answers its mapping key truthily.
\* ------------------------------------------------------------------------
findItem(menu, id) ==
  IF \E k \in 1..Len(menu) : menu[k].id = id
    THEN {menu[CHOOSE k \in 1..Len(menu) :
                 /\ menu[k].id = id
                 /\ \A j \in 1..(k - 1) : menu[j].id # id]}
    ELSE {}

\* the allergens whose loop iteration reaches checkIfOnlyTolerablyPresent
consideredAllergens(allergies, tolerances) ==
  {allergen \in allergies :
     /\ allergen \in MappedAllergens
     /\ allergen \in tolerances.keys
     /\ allergen \in tolerances.yes}

isSafeWithToleranceOf(originalItem, allergies, tolerances) ==
  \A allergen \in consideredAllergens(allergies, tolerances) :
     checkIfOnlyTolerablyPresent(originalItem, allergen,
                                 toleranceMapping(allergen))

\* one note per allergen that passed, when no allergen failed
toleranceReasoningOf(originalItem, allergies, tolerances) ==
  {[allergen |-> allergen, flag |-> toleranceMapping(allergen)] :
     allergen \in consideredAllergens(allergies, tolerances)}

isPromoted(menu, filteredItem, allergies, tolerances) ==
  /\ findItem(menu, filteredItem.id) # {}
  /\ LET originalItem == CHOOSE it \in findItem(menu, filteredItem.id) : TRUE
     IN /\ isSafeWithToleranceOf(originalItem, allergies, tolerances)
        /\ toleranceReasoningOf(originalItem, allergies, tolerances) # {}

tolerantItemOf(menu, filteredItem, allergies, tolerances) ==
  [filteredItem EXCEPT
     !.tolerance_notes =
        toleranceReasoningOf(CHOOSE it \in findItem(menu, filteredItem.id) : TRUE,
                             allergies, tolerances),
     !.toleranceAllowed = TRUE]

RECURSIVE Promoted(_, _, _, _, _)
Promoted(menu, filtered, allergies, tolerances, k) ==
  IF k > Len(filtered) THEN << >>
  ELSE (IF isPromoted(menu, filtered[k], allergies, tolerances)
          THEN << tolerantItemOf(menu, filtered[k], allergies, tolerances) >>
          ELSE << >>)
       \o Promoted(menu, filtered, allergies, tolerances, k + 1)

\* as filterByTolerance, but the refined result starts from empty buckets
filterByToleranceFromEmpty(menu, layer1Results, allergies, tolerances) ==
  IF tolerances.keys = {} THEN layer1Results
  ELSE [safe |-> Promoted(menu, layer1Results.filtered, allergies,
                          tolerances, 1),
        filtered |-> SelectSeq(layer1Results.filtered,
                       LAMBDA v : ~isPromoted(menu, v, allergies, tolerances)),
        canBeModified |-> << >>]

filterByTolerance(menu, layer1Results, allergies, tolerances) ==
  IF tolerances.keys = {} THEN layer1Results
  ELSE [safe |-> layer1Results.safe
                   \o Promoted(menu, layer1Results.filtered, allergies,
                               tolerances, 1),
        filtered |-> SelectSeq(layer1Results.filtered,
                       LAMBDA v : ~isPromoted(menu, v, allergies, tolerances)),
        canBeModified |-> layer1Results.canBeModified]

\* ------------------------------------------------------------------------
\* Input domains: the catalogs (menu.json) and the requests the model draws
\* ------------------------------------------------------------------------
Allergens == {"sesame", "gluten", "dairy"}

\* what one component declares: (allergens, ingredient flags)
ComponentContents ==
  { <<{}, {}>>,
    <<{"sesame"}, {"sesame_oil"}>>,
    <<{"sesame"}, {"sesame_seed"}>>,
    <<{"sesame"}, {"sesame_oil", "sesame_seed"}>>,
    <<{"gluten"}, {"soy_sauce"}>>,
    <<{"dairy"}, {}>>,
    <<{"sesame", "gluten"}, {"sesame_oil"}>> }

\* the components of the first-pass runs: one related form per component
Layer1Contents ==
  ComponentContents \ { <<{"sesame"}, {"sesame_oil", "sesame_seed"}>> }

\* the components of the catalogs of more than one item and of the reports
SimpleContents ==
  { <<{}, {}>>,
    <<{"sesame"}, {"sesame_oil"}>>,
    <<{"sesame"}, {"sesame_seed"}>>,
    <<{"dairy"}, {}>> }

ComponentName(k) == IF k = 1 THEN "c1" ELSE IF k = 2 THEN "c2" ELSE "c3"

ComponentLists(contents) == UNION {[1..n -> contents] : n \in 0..MaxComps}

NamedComponents(list) ==
  [k \in DOMAIN list |->
     [name |-> ComponentName(k),
      contains_allergens |-> list[k][1],
      contains_ingredient_flags |-> list[k][2]]]

RemoveC1 ==
  [action |-> "remove", target_component |-> "c1",
   when |-> [avoid_allergens |-> {"sesame"}, avoid_ingredient_flags |-> {}]]

SubstituteC2 ==
  [action |-> "substitute", target_component |-> "c2",
   when |-> [avoid_allergens |-> {}, avoid_ingredient_flags |-> {"sesame_seed"}]]

Modifications == {RemoveC1, SubstituteC2}

\* an item declares each modification at most once
ModificationLists ==
  {list \in UNION {[1..n -> Modifications] : n \in 0..MaxMods} :
     \A j, k \in DOMAIN list : j # k => list[j] # list[k]}

TagLists == {{}, {"vegetarian"}, {"vegetarian", "vegan"}}

CrossContactLists == {{}, {"sesame"}}

ItemBodies ==
  [tags : TagLists, components : ComponentLists(Layer1Contents),
   modifications : ModificationLists, cross_contact_risk : CrossContactLists]

\* the items of the catalogs of more than one item: one component, no
\* modification or the removal of that component, no cross-contact risk,
\* both tags
SimpleBodies ==
  [tags : {{"vegetarian", "vegan"}},
   components : [1..1 -> SimpleContents],
   modifications : {<< >>, << RemoveC1 >>},
   cross_contact_risk : {{}}]

MenuItem(id, body) ==
  [id |-> id, tags |-> body.tags,
   components |-> NamedComponents(body.components),
   modifications |-> body.modifications,
   cross_contact_risk |-> body.cross_contact_risk]

MenusOf(bodies) == {<< MenuItem(1, body) >> : body \in bodies}

SimpleMenus ==
  UNION {{[k \in 1..n |-> MenuItem(k, bodies[k])] :
            bodies \in [1..n -> SimpleBodies]} : n \in 2..MaxItems}

Catalogs == MenusOf(ItemBodies) \cup SimpleMenus

AvoidedAllergenSets ==
  { {}, {"sesame"}, {"gluten"}, {"dairy"}, {"sesame", "gluten"},
    {"sesame", "gluten", "dairy"} }

Profiles ==
  [dietaryPreferences : {<< >>, <<"vegetarian", "vegan">>},
   avoidAllergens : AvoidedAllergenSets \ {{"gluten"}},
   avoidIngredientFlags : {{}, {"sesame_seed"}, {"sesame_oil"}},
   tolerateFlags : {{}, {"sesame_oil", "soy_sauce"}},
   crossContactOk : BOOLEAN]

\* the catalogs of the refiner runs: one item of up to MaxComps components
\* of any content, no modification or the removal of c1, no cross-contact
\* risk, or 2..MaxItems items of one component
RefinerBodies ==
  [tags : {{}, {"vegetarian", "vegan"}},
   components : ComponentLists(ComponentContents),
   modifications : {<< >>, << RemoveC1 >>},
   cross_contact_risk : {{}}]

RefinerCatalogs == MenusOf(RefinerBodies) \cup SimpleMenus

\* the profiles of the refiner runs: cross-contact rejected
RefinerProfiles ==
  [dietaryPreferences : {<< >>, <<"vegetarian", "vegan">>},
   avoidAllergens : AvoidedAllergenSets,
   avoidIngredientFlags : {{}, {"sesame_seed"}},
   tolerateFlags : {{}, {"sesame_oil"}},
   crossContactOk : {FALSE}]

ToleranceDeclarations ==
  { [keys |-> {}, yes |-> {}],
    [keys |-> {"sesame"}, yes |-> {}],
    [keys |-> {"sesame"}, yes |-> {"sesame"}],
    [keys |-> {"sesame", "gluten"}, yes |-> {"sesame", "gluten"}] }

\* the catalogs of the report runs: one item of up to MaxComps components
\* and MaxMods modifications, or 2..MaxItems items of one component
ReportBodies ==
  [tags : {{"vegetarian", "vegan"}},
   components : ComponentLists(SimpleContents),
   modifications : ModificationLists,
   cross_contact_risk : {{}}]

\* items that leave tags, modifications, components or cross-contact list
\* out: every read of these fields substitutes the empty list for a missing
\* one (engine.js:43,71,98,136,156,177,187,294,393), so they are the items
\* whose lists are empty
BareBodies ==
  [tags : {{}},
   components : {<< >>} \cup [1..1 -> SimpleContents],
   modifications : {<< >>},
   cross_contact_risk : CrossContactLists]

ReportCatalogs == MenusOf(ReportBodies) \cup MenusOf(BareBodies) \cup SimpleMenus

\* the requests of the report runs: a profile without dietary preferences
\* that rejects cross-contact, with or without tolerance data
ReportProfiles ==
  [dietaryPreferences : {<< >>},
   avoidAllergens : AvoidedAllergenSets,
   avoidIngredientFlags : {{}, {"sesame_seed"}, {"sesame_oil"}},
   tolerateFlags : {{}, {"sesame_oil"}},
   crossContactOk : {FALSE}]

RequestTolerances ==
  { [keys |-> {}, yes |-> {}], [keys |-> {"sesame"}, yes |-> {"sesame"}] }

\* a request body is a record of the fields it carries: all five, only
\* avoidAllergens, or none
EmptyRequest == << >>

Requests ==
  ReportProfiles
  \cup {[avoidAllergens |-> allergies] : allergies \in AvoidedAllergenSets}
  \cup {EmptyRequest}

NoProfile ==
  [dietaryPreferences |-> << >>, avoidAllergens |-> {},
   avoidIngredientFlags |-> {}, tolerateFlags |-> {}, crossContactOk |-> FALSE]

NoTolerances == [keys |-> {}, yes |-> {}]

EmptyResults == [safe |-> << >>, filtered |-> << >>, canBeModified |-> << >>]

NoReport == [safeForAll |-> << >>, safeByAllergy |-> << >>]

\* ------------------------------------------------------------------------
\* The per-allergy passes of a report: safeByAllergy, and the catalog after
\* them (the passes run one after the other on the same menuData)
\* ------------------------------------------------------------------------
\* as SinglePass, but the per-allergen pass is given no tolerated flags
SinglePassNoTolerance(p, allergen) ==
  [p EXCEPT !.avoidAllergens = {allergen}, !.tolerateFlags = {}]

SinglePass(p, allergen) == [p EXCEPT !.avoidAllergens = {allergen}]

RECURSIVE MenuAfterPasses(_, _, _)
MenuAfterPasses(menu, p, todo) ==
  IF todo = {} THEN menu
  ELSE LET allergen == CHOOSE a \in todo : TRUE
       IN MenuAfterPasses(MenuAfterFilter(menu, SinglePass(p, allergen)), p,
                          todo \ {allergen})

RECURSIVE MenuBeforePass(_, _, _, _)
MenuBeforePass(menu, p, todo, allergen) ==
  LET next == CHOOSE a \in todo : TRUE
  IN IF next = allergen THEN menu
     ELSE MenuBeforePass(MenuAfterFilter(menu, SinglePass(p, next)), p,
                         todo \ {next}, allergen)

safeByAllergyOf(menu, p) ==
  [allergen \in p.avoidAllergens |->
     filterByDietaryAndAllergies(
        MenuBeforePass(menu, p, p.avoidAllergens, allergen),
        SinglePass(p, allergen)).safe]

\* ------------------------------------------------------------------------
\* runMultiAllergyReport (engine.js) and the POST /api/run handler
\* (server.js).  Both destructure the five profile fields of tableProfile
\* and read nothing else of it.
\* ------------------------------------------------------------------------
ProfileFields ==
  {"dietaryPreferences", "avoidAllergens", "avoidIngredientFlags",
   "tolerateFlags", "crossContactOk"}

\* a missing field means the strictest setting
DestructureStrict(tableProfile) ==
  [field \in ProfileFields |->
     IF field \in DOMAIN tableProfile THEN tableProfile[field]
     ELSE CASE field = "dietaryPreferences" -> <<"vegetarian", "vegan">>
            [] field = "avoidAllergens" -> Allergens
            [] field = "crossContactOk" -> FALSE
            [] OTHER -> {}]

\* const { dietaryPreferences = [], avoidAllergens = [], ... } = tableProfile
Destructure(tableProfile) ==
  [field \in ProfileFields |->
     IF field \in DOMAIN tableProfile THEN tableProfile[field]
     ELSE CASE field = "dietaryPreferences" -> << >>
            [] field = "crossContactOk" -> FALSE
            [] OTHER -> {}]

runMultiAllergyReport(menu, tableProfile) ==
  LET p == Destructure(tableProfile)
      combinedResults == filterByDietaryAndAllergies(menu, p)
  IN [safeForAll |-> combinedResults.safe,
      safeByAllergy |-> safeByAllergyOf(MenuAfterFilter(menu, p), p)]

apiRun(menu, tableProfile) ==
  LET p == Destructure(tableProfile)
      combinedResults == filterByDietaryAndAllergies(menu, p)
  IN [safeForAll |-> combinedResults.safe,
      canBeModifiedForAll |-> combinedResults.canBeModified,
      filteredForAll |-> combinedResults.filtered,
      safeByAllergy |-> safeByAllergyOf(MenuAfterFilter(menu, p), p)]

\* the catalog after either report
MenuAfterReport(menu, tableProfile) ==
  LET p == Destructure(tableProfile)
  IN MenuAfterPasses(MenuAfterFilter(menu, p), p, p.avoidAllergens)

\* ------------------------------------------------------------------------
\* The profile wizard (public/app.js).  state.avoidAllergens and
\* state.dietaryPreferences are sequences (their order is the order of the
\* clicks, and the tolerance steps follow it); state.tolerateFlags and
\* state.avoidIngredientFlags are only pushed when absent, searched and
\* spliced, and are sets; state.tolerance_answers is a function from the
\* answered allergens to BOOLEAN; crossContactOk is "null", "true" or
\* "false".
\* ------------------------------------------------------------------------
WizardAllergens == {"gluten", "shellfish", "peanut", "sesame"}

\* allergyToleranceMap[allergen].flag
allergyToleranceMap(allergen) ==
  CASE allergen = "gluten" -> "soy_sauce"
    [] allergen = "shellfish" -> "oyster_sauce"
    [] allergen = "peanut" -> "peanut_oil"
    [] allergen = "sesame" -> "sesame_oil"

InitialState ==
  [step |-> 0, dietaryPreferences |-> << >>, avoidAllergens |-> << >>,
   avoidIngredientFlags |-> {}, tolerateFlags |-> {},
   crossContactOk |-> "null", tolerance_answers |-> << >>]

baseSteps == <<"dietary", "allergies", "crossContact">>

OptionsOf(id) ==
  CASE id = "dietary" -> {"vegetarian", "vegan", "none"}
    [] id = "allergies" -> WizardAllergens \cup {"none"}
    [] OTHER -> {"Yes", "No"}

Includes(list, x) == \E k \in DOMAIN list : list[k] = x

relevantAllergies(st) ==
  SelectSeq(st.avoidAllergens, LAMBDA a : a # "none" /\ a \in WizardAllergens)

getTotalSteps(st) == Len(baseSteps) + Len(relevantAllergies(st))

NullStep == [id |-> "null", allergen |-> "", flag |-> ""]

getCurrentStep(st) ==
  IF st.step < Len(baseSteps)
    THEN [id |-> baseSteps[st.step + 1], allergen |-> "", flag |-> ""]
  ELSE IF st.step - Len(baseSteps) < Len(relevantAllergies(st))
    THEN LET allergen == relevantAllergies(st)[st.step - Len(baseSteps) + 1]
         IN [id |-> "tolerance", allergen |-> allergen,
             flag |-> allergyToleranceMap(allergen)]
  ELSE NullStep

isStepValid(st, step) ==
  CASE step.id = "dietary" -> Len(st.dietaryPreferences) > 0
    [] step.id = "allergies" -> Len(st.avoidAllergens) > 0
    [] step.id = "crossContact" -> st.crossContactOk # "null"
    [] step.id = "tolerance" -> step.allergen \in DOMAIN st.tolerance_answers
    [] OTHER -> FALSE

\* the none / replace-none / splice / push chain of a multi-select click
Toggled(list, lowerOption) ==
  IF lowerOption = "none" THEN << "none" >>
  ELSE IF Includes(list, "none") THEN << lowerOption >>
  ELSE IF Includes(list, lowerOption)
    THEN SelectSeq(list, LAMBDA x : x # lowerOption)
  ELSE Append(list, lowerOption)

Without(answers, removed) ==
  [a \in DOMAIN answers \ removed |-> answers[a]]

\* as handleMultiSelect, without the cleanup of the deselected allergens
handleMultiSelectNoCleanup(st, lowerOption, step) ==
  IF step.id = "dietary"
    THEN [st EXCEPT !.dietaryPreferences = Toggled(@, lowerOption)]
  ELSE IF step.id = "allergies"
    THEN [st EXCEPT !.avoidAllergens = Toggled(@, lowerOption)]
  ELSE st

handleMultiSelect(st, lowerOption, step) ==
  IF step.id = "dietary"
    THEN [st EXCEPT !.dietaryPreferences = Toggled(@, lowerOption)]
  ELSE IF step.id = "allergies"
    THEN LET avoidAllergens == Toggled(st.avoidAllergens, lowerOption)
             deselectedAllergies ==
               {st.avoidAllergens[k] : k \in DOMAIN st.avoidAllergens}
                 \ ({"none"} \cup {avoidAllergens[k] : k \in DOMAIN avoidAllergens})
             cleaned == deselectedAllergies \cap WizardAllergens
             flags == {allergyToleranceMap(a) : a \in cleaned}
         IN [st EXCEPT
               !.avoidAllergens = avoidAllergens,
               !.tolerance_answers = Without(@, cleaned),
               !.tolerateFlags = @ \ flags,
               !.avoidIngredientFlags = @ \ flags]
  ELSE st

handleSingleSelect(st, option, step) ==
  IF step.id = "crossContact"
    THEN [st EXCEPT !.crossContactOk = IF option = "Yes" THEN "true" ELSE "false"]
  ELSE IF step.id = "tolerance"
    THEN [st EXCEPT
            !.tolerance_answers =
               [a \in DOMAIN @ \cup {step.allergen} |->
                  IF a = step.allergen THEN option = "Yes" ELSE @[a]],
            !.tolerateFlags =
               IF option = "Yes" THEN @ \cup {step.flag} ELSE @ \ {step.flag},
            !.avoidIngredientFlags =
               IF option = "Yes" THEN @ \ {step.flag} ELSE @ \cup {step.flag}]
  ELSE st

handleOptionClick(st, option) ==
  LET step == getCurrentStep(st)
  IN IF step = NullStep THEN st
     ELSE IF step.id \in {"dietary", "allergies"}
       THEN handleMultiSelect(st, option, step)
     ELSE handleSingleSelect(st, option, step)

\* the buttons on the page: those of the current step, or of the last step
\* once the conversation is complete
RenderedOptions(st) ==
  IF getCurrentStep(st) # NullStep THEN OptionsOf(getCurrentStep(st).id)
  ELSE OptionsOf(getCurrentStep([st EXCEPT !.step = @ - 1]).id)

\* ------------------------------------------------------------------------
\* State
\* ------------------------------------------------------------------------
VARIABLES
  menuData,       \* the catalog loaded at start-up (engine.js:8)
  pc,             \* "idle", then the call last made
  tableProfile,   \* the body of the last request
  state,          \* the wizard's state object (app.js)
  profile,        \* the profile of the last call or request
  tolerances,     \* the tolerance declaration of the last call or request
  layer1Results,  \* what filterByDietaryAndAllergies returned
  refinedResults, \* what filterByTolerance returned
  report,         \* the last report built
  firstReport     \* the report of the first of two identical requests

vars == <<menuData, pc, tableProfile, state, profile, tolerances,
          layer1Results, refinedResults, report, firstReport>>

Init ==
  /\ menuData \in Catalogs
  /\ pc = "idle"
  /\ tableProfile = EmptyRequest
  /\ state = InitialState
  /\ profile = NoProfile
  /\ tolerances = NoTolerances
  /\ layer1Results = EmptyResults
  /\ refinedResults = EmptyResults
  /\ report = NoReport
  /\ firstReport = NoReport

\* one call of filterByDietaryAndAllergies
Layer1(p) ==
  /\ pc = "idle"
  /\ pc' = "layer1"
  /\ profile' = p
  /\ layer1Results' = filterByDietaryAndAllergies(menuData, p)
  /\ menuData' = MenuAfterFilter(menuData, p)
  /\ UNCHANGED <<tableProfile, state, tolerances, refinedResults, report,
                 firstReport>>

Next == \E p \in Profiles : Layer1(p)

Spec == Init /\ [][Next]_vars

\* ------------------------------------------------------------------------
\* The refiner runs: filterByTolerance on the results of a first pass
\* ------------------------------------------------------------------------
InitRefiner ==
  /\ menuData \in RefinerCatalogs
  /\ pc = "idle"
  /\ tableProfile = EmptyRequest
  /\ state = InitialState
  /\ profile = NoProfile
  /\ tolerances = NoTolerances
  /\ layer1Results = EmptyResults
  /\ refinedResults = EmptyResults
  /\ report = NoReport
  /\ firstReport = NoReport

\* one call of filterByTolerance on the first-pass results
Layer2(t) ==
  /\ pc = "layer1"
  /\ pc' = "layer2"
  /\ tolerances' = t
  /\ refinedResults' =
       filterByTolerance(menuData, layer1Results, profile.avoidAllergens, t)
  /\ UNCHANGED <<menuData, tableProfile, state, profile, layer1Results,
                 report, firstReport>>

NextRefiner ==
  \/ \E p \in RefinerProfiles : Layer1(p)
  \/ \E t \in ToleranceDeclarations : Layer2(t)

SpecRefiner == InitRefiner /\ [][NextRefiner]_vars

\* ------------------------------------------------------------------------
\* The related-form runs: a first pass over one item of one component that
\* declares any flags of the relations table, with any of them tolerated
\* ------------------------------------------------------------------------
FormAllergenSets ==
  { {"sesame"}, {"peanut"}, {"gluten"}, {"shellfish"}, {"dairy"},
    {"sesame", "gluten"} }

FormFlags ==
  {"sesame_seed", "sesame_oil", "peanut_oil", "soy_sauce", "oyster_sauce"}

FormBodies ==
  [tags : {{"vegetarian", "vegan"}},
   components : {<< <<allergens, flags>> >> :
                   allergens \in FormAllergenSets, flags \in SUBSET FormFlags},
   modifications : {<< >>},
   cross_contact_risk : {{}}]

FormCatalogs == MenusOf(FormBodies)

FormProfiles ==
  [dietaryPreferences : {<< >>},
   avoidAllergens : FormAllergenSets,
   avoidIngredientFlags : {{}, {"sesame_oil"}},
   tolerateFlags : SUBSET FormFlags,
   crossContactOk : {FALSE}]

InitForms ==
  /\ menuData \in FormCatalogs
  /\ pc = "idle"
  /\ tableProfile = EmptyRequest
  /\ state = InitialState
  /\ profile = NoProfile
  /\ tolerances = NoTolerances
  /\ layer1Results = EmptyResults
  /\ refinedResults = EmptyResults
  /\ report = NoReport
  /\ firstReport = NoReport

NextForms == \E p \in FormProfiles : Layer1(p)

SpecForms == InitForms /\ [][NextForms]_vars

\* ------------------------------------------------------------------------
\* The report runs: a request is a profile and a tolerance declaration
\* ------------------------------------------------------------------------
InitReport ==
  /\ menuData \in ReportCatalogs
  /\ pc = "idle"
  /\ tableProfile = EmptyRequest
  /\ state = InitialState
  /\ profile = NoProfile
  /\ tolerances = NoTolerances
  /\ layer1Results = EmptyResults
  /\ refinedResults = EmptyResults
  /\ report = NoReport
  /\ firstReport = NoReport

\* POST /api/run
ApiRun(body, t) ==
  /\ pc = "idle"
  /\ pc' = "reported"
  /\ tableProfile' = body
  /\ profile' = Destructure(body)
  /\ tolerances' = t
  /\ report' = apiRun(menuData, body)
  /\ menuData' = MenuAfterReport(menuData, body)
  /\ UNCHANGED <<state, layer1Results, refinedResults, firstReport>>

\* the same request posted again
ApiRunAgain ==
  /\ pc = "reported"
  /\ pc' = "reported_again"
  /\ firstReport' = report
  /\ report' = apiRun(menuData, tableProfile)
  /\ menuData' = MenuAfterReport(menuData, tableProfile)
  /\ UNCHANGED <<tableProfile, state, profile, tolerances, layer1Results,
                 refinedResults>>

\* one call of runMultiAllergyReport
MultiAllergyReport(body, t) ==
  /\ pc = "idle"
  /\ pc' = "multi"
  /\ tableProfile' = body
  /\ profile' = Destructure(body)
  /\ tolerances' = t
  /\ report' = runMultiAllergyReport(menuData, body)
  /\ menuData' = MenuAfterReport(menuData, body)
  /\ UNCHANGED <<state, layer1Results, refinedResults, firstReport>>

NextReport ==
  \/ \E body \in Requests, t \in RequestTolerances : ApiRun(body, t)
  \/ ApiRunAgain
  \/ \E body \in Requests, t \in RequestTolerances :
        MultiAllergyReport(body, t)

SpecReport == InitReport /\ [][NextReport]_vars

\* ------------------------------------------------------------------------
\* The wizard runs: option clicks, Next and Back.  goNext posts the profile
\* when the last step is passed; the request writes nothing of the state.
\* ------------------------------------------------------------------------
InitWizard ==
  /\ menuData = << >>
  /\ pc = "idle"
  /\ tableProfile = EmptyRequest
  /\ state = InitialState
  /\ profile = NoProfile
  /\ tolerances = NoTolerances
  /\ layer1Results = EmptyResults
  /\ refinedResults = EmptyResults
  /\ report = NoReport
  /\ firstReport = NoReport

\* a click on one of the option buttons
OptionClick(option) ==
  /\ option \in RenderedOptions(state)
  /\ state' = handleOptionClick(state, option)
  /\ UNCHANGED <<menuData, pc, tableProfile, profile, tolerances,
                 layer1Results, refinedResults, report, firstReport>>

goNext ==
  /\ isStepValid(state, getCurrentStep(state))
  /\ state' = [state EXCEPT !.step = @ + 1]
  /\ UNCHANGED <<menuData, pc, tableProfile, profile, tolerances,
                 layer1Results, refinedResults, report, firstReport>>

goBack ==
  /\ state.step # 0
  /\ state' = [state EXCEPT !.step = @ - 1]
  /\ UNCHANGED <<menuData, pc, tableProfile, profile, tolerances,
                 layer1Results, refinedResults, report, firstReport>>

NextWizard ==
  \/ \E option \in {"vegetarian", "vegan", "none", "Yes", "No"}
                   \cup WizardAllergens : OptionClick(option)
  \/ goNext
  \/ goBack

SpecWizard == InitWizard /\ [][NextWizard]_vars

\* ------------------------------------------------------------------------
\* Reading the results
\* ------------------------------------------------------------------------
IdsIn(bucket) == {bucket[k].id : k \in DOMAIN bucket}

Occurrences(bucket, id) == Cardinality({k \in DOMAIN bucket : bucket[k].id = id})

\* the verdicts a result carries for one item, over the three buckets
VerdictsOf(results, id) ==
  {results.safe[k] : k \in {j \in DOMAIN results.safe : results.safe[j].id = id}}
  \cup {results.canBeModified[k] :
          k \in {j \in DOMAIN results.canBeModified :
                   results.canBeModified[j].id = id}}
  \cup {results.filtered[k] :
          k \in {j \in DOMAIN results.filtered : results.filtered[j].id = id}}

ReasonsOf(verdict) == {verdict.reasons[k] : k \in DOMAIN verdict.reasons}

FirstPassDone == pc \in {"layer1", "layer2"}

\* the item fails the dietary check: a requested vegetarian or vegan whose
\* tag the item lacks
FailsDietary(item, p) ==
  \E k \in DOMAIN p.dietaryPreferences :
     /\ p.dietaryPreferences[k] \in {"vegetarian", "vegan"}
     /\ p.dietaryPreferences[k] \notin item.tags

\* the avoided allergen is not tolerable in the component: no tolerated flag
\* is both declared on the component and a related form of the allergen
NotTolerableIn(component, allergen, p) ==
  ~ \E flag \in p.tolerateFlags :
       /\ flag \in component.contains_ingredient_flags
       /\ flag \in relations(allergen)

\* ------------------------------------------------------------------------
\* C1: one run of filterByDietaryAndAllergies places every catalog item in
\* exactly one of safe, canBeModified and filtered: once over the three
\* buckets together, and the buckets hold nothing else.
\* ------------------------------------------------------------------------
C1_ExactlyOneBucket ==
  FirstPassDone =>
    /\ \A k \in DOMAIN menuData :
          Occurrences(layer1Results.safe, menuData[k].id)
          + Occurrences(layer1Results.canBeModified, menuData[k].id)
          + Occurrences(layer1Results.filtered, menuData[k].id) = 1
    /\ Len(layer1Results.safe) + Len(layer1Results.canBeModified)
         + Len(layer1Results.filtered) = Len(menuData)

C1_Witness ==
  /\ pc = "layer1"
  /\ Len(menuData) = 2
  /\ Len(layer1Results.canBeModified) = 1
  /\ Len(layer1Results.filtered) = 1

\* ------------------------------------------------------------------------
\* C2: an item that fails the dietary check is placed in filtered, never in
\* safe and never in canBeModified, whatever its modifications and allergen
\* issues.
\* ------------------------------------------------------------------------
C2_DietaryFailureIsFiltered ==
  FirstPassDone =>
    \A k \in DOMAIN menuData :
       FailsDietary(menuData[k], profile) =>
          /\ menuData[k].id \in IdsIn(layer1Results.filtered)
          /\ menuData[k].id \notin IdsIn(layer1Results.safe)
          /\ menuData[k].id \notin IdsIn(layer1Results.canBeModified)

\* ------------------------------------------------------------------------
\* C3: filterByTolerance promotes an item from filtered to safe only if
\* every avoided allergen declared on a component of the item has a
\* tolerated-form mapping, an affirmative tolerance, and on every component
\* declaring it the tolerated flag and no other related form.
\* ------------------------------------------------------------------------
PassesToleratedFormTest(item, allergen, t) ==
  /\ allergen \in MappedAllergens
  /\ allergen \in t.yes
  /\ \A k \in DOMAIN item.components :
        allergen \in item.components[k].contains_allergens =>
           /\ toleranceMapping(allergen)
                 \in item.components[k].contains_ingredient_flags
           /\ item.components[k].contains_ingredient_flags
                 \cap relations(allergen) \subseteq {toleranceMapping(allergen)}

DeclaredAllergens(item) ==
  UNION {item.components[k].contains_allergens : k \in DOMAIN item.components}

\* the ids filterByTolerance moved from filtered to safe
PromotedIds ==
  {refinedResults.safe[k].id :
     k \in {j \in DOMAIN refinedResults.safe :
              refinedResults.safe[j].toleranceAllowed}}

C3_PromotedOnlyIfEveryAvoidedAllergenPasses ==
  pc = "layer2" =>
    \A k \in DOMAIN menuData :
       menuData[k].id \in PromotedIds =>
          \A allergen \in profile.avoidAllergens \cap DeclaredAllergens(menuData[k]) :
             PassesToleratedFormTest(menuData[k], allergen, tolerances)

\* ------------------------------------------------------------------------
\* C4: adding an affirmative tolerance for allergen A to the declaration
\* moves an item from filtered to safe only when the item contains A, only
\* in A's tolerated form, and had no other blocking issue (no dietary
\* failure, no avoided flag, no cross-contact rejection, no other
\* intolerable allergen).
\* ------------------------------------------------------------------------
WithoutTolerance(t, allergen) == [t EXCEPT !.yes = @ \ {allergen}]

NoOtherBlockingIssue(item, allergen, p) ==
  /\ ~FailsDietary(item, p)
  /\ \A k \in DOMAIN item.components :
        /\ item.components[k].contains_ingredient_flags
              \cap p.avoidIngredientFlags = {}
        /\ \A other \in (item.components[k].contains_allergens
                           \cap p.avoidAllergens) \ {allergen} :
              ~NotTolerableIn(item.components[k], other, p)
  /\ (p.crossContactOk \/ item.cross_contact_risk \cap p.avoidAllergens = {})

C4_ToleranceMonotonicity ==
  pc = "layer2" =>
    \A allergen \in tolerances.yes \cap profile.avoidAllergens :
       \A k \in DOMAIN menuData :
          ( /\ menuData[k].id \in PromotedIds
            /\ menuData[k].id \in
                 IdsIn(filterByTolerance(menuData, layer1Results,
                                         profile.avoidAllergens,
                                         WithoutTolerance(tolerances, allergen)).filtered) )
          => /\ allergen \in DeclaredAllergens(menuData[k])
             /\ PassesToleratedFormTest(menuData[k], allergen, tolerances)
             /\ NoOtherBlockingIssue(menuData[k], allergen, profile)

\* ------------------------------------------------------------------------
\* C5: every component that declares an avoided allergen not tolerable in
\* it, or an avoided ingredient flag (tolerated or not), puts a reason
\* naming the component on the item's verdict, and the item is not safe.
\* ------------------------------------------------------------------------
C5_NothingSilentlyDropped ==
  FirstPassDone =>
    \A k \in DOMAIN menuData :
       \A c \in DOMAIN menuData[k].components :
          LET component == menuData[k].components[c]
              verdicts == VerdictsOf(layer1Results, menuData[k].id)
          IN /\ (\E allergen \in component.contains_allergens
                                   \cap profile.avoidAllergens :
                    NotTolerableIn(component, allergen, profile))
                => /\ verdicts # {}
                   /\ \A v \in verdicts :
                         \E r \in ReasonsOf(v) :
                            /\ r.kind = "intolerable"
                            /\ r.component = component.name
                            /\ r.what =
                                 {a \in component.contains_allergens
                                          \cap profile.avoidAllergens :
                                    NotTolerableIn(component, a, profile)}
                   /\ menuData[k].id \notin IdsIn(layer1Results.safe)
             /\ (component.contains_ingredient_flags
                    \cap profile.avoidIngredientFlags # {})
                => /\ verdicts # {}
                   /\ \A v \in verdicts :
                         \E r \in ReasonsOf(v) :
                            /\ r.kind = "ingredient_flag"
                            /\ r.component = component.name
                            /\ r.what = component.contains_ingredient_flags
                                          \cap profile.avoidIngredientFlags
                   /\ menuData[k].id \notin IdsIn(layer1Results.safe)

\* an avoided flag that is also tolerated, next to an intolerable allergen
C5_Witness ==
  /\ pc = "layer1"
  /\ \E k \in DOMAIN menuData :
       \E c \in DOMAIN menuData[k].components :
          LET component == menuData[k].components[c]
          IN /\ component.contains_ingredient_flags
                  \cap profile.avoidIngredientFlags \cap profile.tolerateFlags # {}
             /\ \E allergen \in component.contains_allergens
                                  \cap profile.avoidAllergens :
                   NotTolerableIn(component, allergen, profile)
             /\ menuData[k].id \in IdsIn(layer1Results.canBeModified)

\* ------------------------------------------------------------------------
\* C6: two triggered modifications that are each insufficient alone and
\* sufficient when both are applied to one working copy put the item in
\* canBeModified, listing both, and not in filtered.
\* ------------------------------------------------------------------------
SafeAfter(item, components, p) ==
  checkComplianceOnComponents(components, item.cross_contact_risk,
                              p.avoidAllergens, p.avoidIngredientFlags,
                              p.crossContactOk, p.tolerateFlags).ok

JointlySufficient(item, m1, m2, p) ==
  /\ m1 # m2
  /\ isTriggered(m1, p.avoidAllergens, p.avoidIngredientFlags)
  /\ isTriggered(m2, p.avoidAllergens, p.avoidIngredientFlags)
  /\ ~checkCompliance(item, p.avoidAllergens, p.avoidIngredientFlags,
                      p.crossContactOk, p.tolerateFlags).ok
  /\ ~SafeAfter(item, applyModification(CatalogComponents(item), m1).components, p)
  /\ ~SafeAfter(item, applyModification(CatalogComponents(item), m2).components, p)
  /\ SafeAfter(item,
               applyModification(applyModification(CatalogComponents(item), m1),
                                 m2).components, p)

ListedModifications(verdict) ==
  {verdict.modifications[k] : k \in DOMAIN verdict.modifications}

ModificationsOf(item) == {item.modifications[k] : k \in DOMAIN item.modifications}

C6_JointModifications ==
  FirstPassDone =>
    \A k \in DOMAIN menuData :
       \A m1, m2 \in ModificationsOf(menuData[k]) :
          JointlySufficient(menuData[k], m1, m2, profile) =>
             /\ menuData[k].id \in IdsIn(layer1Results.canBeModified)
             /\ menuData[k].id \notin IdsIn(layer1Results.filtered)
             /\ \A v \in VerdictsOf(layer1Results, menuData[k].id) :
                   {m1, m2} \subseteq ListedModifications(v)

C6_Witness ==
  /\ pc = "layer1"
  /\ \E k \in DOMAIN menuData :
       /\ \E m1, m2 \in ModificationsOf(menuData[k]) :
             JointlySufficient(menuData[k], m1, m2, profile)
       /\ menuData[k].id \in IdsIn(layer1Results.canBeModified)

\* ------------------------------------------------------------------------
\* C7: an item whose only issue is an avoided allergen in its cross-contact
\* list is filtered (not safe, not canBeModified, triggered modifications or
\* not) when crossContactOk is false, and safe when it is true.
\* ------------------------------------------------------------------------
OnlyCrossContactIssue(item, p) ==
  /\ ~FailsDietary(item, p)
  /\ \A k \in DOMAIN item.components :
        /\ item.components[k].contains_ingredient_flags
              \cap p.avoidIngredientFlags = {}
        /\ \A allergen \in item.components[k].contains_allergens
                             \cap p.avoidAllergens :
              ~NotTolerableIn(item.components[k], allergen, p)
  /\ item.cross_contact_risk \cap p.avoidAllergens # {}

C7_CrossContactGating ==
  FirstPassDone =>
    \A k \in DOMAIN menuData :
       OnlyCrossContactIssue(menuData[k], profile) =>
          IF profile.crossContactOk
            THEN /\ menuData[k].id \in IdsIn(layer1Results.safe)
                 /\ menuData[k].id \notin IdsIn(layer1Results.filtered)
            ELSE /\ menuData[k].id \in IdsIn(layer1Results.filtered)
                 /\ menuData[k].id \notin IdsIn(layer1Results.safe)
                 /\ menuData[k].id \notin IdsIn(layer1Results.canBeModified)

\* cross-contact rejected, and a triggered modification that removes a
\* component
C7_Witness ==
  /\ pc = "layer1"
  /\ ~profile.crossContactOk
  /\ \E k \in DOMAIN menuData :
       /\ OnlyCrossContactIssue(menuData[k], profile)
       /\ Len(menuData[k].components) = 2
       /\ \E m \in ModificationsOf(menuData[k]) :
             /\ m.action = "remove"
             /\ isTriggered(m, profile.avoidAllergens,
                            profile.avoidIngredientFlags)
       /\ menuData[k].id \in IdsIn(layer1Results.filtered)

\* ------------------------------------------------------------------------
\* C8: a report run leaves the catalog as it was, and the same request
\* posted again gets the same report.
\* ------------------------------------------------------------------------
C8_NoCatalogMutationIdempotent ==
  [][ /\ menuData' = menuData
      /\ (pc' = "reported_again" => report' = report) ]_vars

\* the second run has answered, and the resolver removed and substituted
\* components in it
C8_Witness ==
  /\ pc = "reported_again"
  /\ report = firstReport
  /\ \E k \in DOMAIN report.canBeModifiedForAll :
       \E m1, m2 \in ListedModifications(report.canBeModifiedForAll[k]) :
          m1.action = "remove" /\ m2.action = "substitute"

\* ------------------------------------------------------------------------
\* C9: filterByTolerance keeps every first-pass safe verdict in safe, hands
\* canBeModified through as it is, and puts every first-pass filtered
\* verdict in exactly one of safe and filtered.
\* ------------------------------------------------------------------------
C9_SafeAndModifiablePassThrough ==
  pc = "layer2" =>
    /\ Len(refinedResults.safe) >= Len(layer1Results.safe)
    /\ SubSeq(refinedResults.safe, 1, Len(layer1Results.safe))
         = layer1Results.safe
    /\ refinedResults.canBeModified = layer1Results.canBeModified
    /\ \A k \in DOMAIN layer1Results.filtered :
          LET id == layer1Results.filtered[k].id
          IN Occurrences(refinedResults.filtered, id)
               + Occurrences(refinedResults.safe, id)
               - Occurrences(layer1Results.safe, id) = 1
    /\ Len(refinedResults.safe) + Len(refinedResults.filtered)
         = Len(layer1Results.safe) + Len(layer1Results.filtered)

\* tolerance data given, a first-pass safe item and a promoted one
C9_Witness ==
  /\ pc = "layer2"
  /\ tolerances.keys # {}
  /\ Len(layer1Results.safe) = 1
  /\ Len(refinedResults.safe) = 2

\* ------------------------------------------------------------------------
\* C10: when the request carries tolerance data, the report's combined safe
\* and filtered lists are what filterByTolerance returns for the combined
\* first-pass result.
\* ------------------------------------------------------------------------
RefinedCombined ==
  filterByTolerance(menuData, filterByDietaryAndAllergies(menuData, profile),
                    profile.avoidAllergens, tolerances)

C10_ReportIsRefinerOutput ==
  /\ (pc \in {"reported", "multi"} /\ tolerances.keys # {})
        => report.safeForAll = RefinedCombined.safe
  /\ (pc = "reported" /\ tolerances.keys # {})
        => report.filteredForAll = RefinedCombined.filtered

\* ------------------------------------------------------------------------
\* C11: a request body with all five profile fields missing is treated as
\* no restrictions: the report lists every catalog item once in safeForAll
\* with an empty reason list, canBeModifiedForAll and filteredForAll are
\* empty and there is no per-allergen entry, whatever the items declare.
\* ------------------------------------------------------------------------
ReportBuilt == pc \in {"reported", "reported_again", "multi"}

C11_MissingProfileIsNoRestriction ==
  (ReportBuilt /\ tableProfile = EmptyRequest) =>
    /\ Len(report.safeForAll) = Len(menuData)
    /\ \A k \in DOMAIN menuData :
          /\ report.safeForAll[k].id = menuData[k].id
          /\ report.safeForAll[k].reasons = << >>
    /\ DOMAIN report.safeByAllergy = {}
    /\ pc # "multi" =>
          /\ report.canBeModifiedForAll = << >>
          /\ report.filteredForAll = << >>

\* an empty body posted against an item that carries an allergen, a
\* cross-contact risk and no tag
C11_Witness ==
  /\ pc = "reported"
  /\ tableProfile = EmptyRequest
  /\ \E k \in DOMAIN menuData :
        /\ menuData[k].tags = {}
        /\ menuData[k].cross_contact_risk # {}
        /\ DeclaredAllergens(menuData[k]) # {}
        /\ menuData[k].id \in IdsIn(report.safeForAll)

\* ------------------------------------------------------------------------
\* C12: every item in canBeModified is non-compliant as served, has a
\* modification whose trigger meets the avoided allergens or flags, and has
\* no issue left once all its triggered modifications are applied one after
\* the other (remove deletes the target, substitute empties it), the
\* cross-contact list staying the item's own; an item without a triggered
\* modification is never in canBeModified.
\* ------------------------------------------------------------------------
TriggeredBy(m, p) ==
  \/ m.when.avoid_allergens \cap p.avoidAllergens # {}
  \/ m.when.avoid_ingredient_flags \cap p.avoidIngredientFlags # {}

TriggeredModifications(item, p) ==
  SelectSeq(item.modifications, LAMBDA m : TriggeredBy(m, p))

Modified(components, m) ==
  IF m.action = "remove"
    THEN SelectSeq(components, LAMBDA c : c.name # m.target_component)
    ELSE [k \in DOMAIN components |->
            IF components[k].name = m.target_component
              THEN [name |-> components[k].name, contains_allergens |-> {},
                    contains_ingredient_flags |-> {}]
              ELSE components[k]]

RECURSIVE ModifiedByAll(_, _)
ModifiedByAll(components, mods) ==
  IF mods = << >> THEN components
  ELSE ModifiedByAll(Modified(components, Head(mods)), Tail(mods))

HasIssues(components, crossContactRisk, p) ==
  \/ \E k \in DOMAIN components :
        \/ \E allergen \in components[k].contains_allergens \cap p.avoidAllergens :
              NotTolerableIn(components[k], allergen, p)
        \/ components[k].contains_ingredient_flags \cap p.avoidIngredientFlags # {}
  \/ ~p.crossContactOk /\ crossContactRisk \cap p.avoidAllergens # {}

C12_ModifiableIsRescued ==
  FirstPassDone =>
    \A k \in DOMAIN menuData :
       LET item == menuData[k]
           triggered == TriggeredModifications(item, profile)
       IN /\ item.id \in IdsIn(layer1Results.canBeModified) =>
               /\ HasIssues(item.components, item.cross_contact_risk, profile)
               /\ triggered # << >>
               /\ ~HasIssues(ModifiedByAll(item.components, triggered),
                             item.cross_contact_risk, profile)
          /\ triggered = << >> =>
               item.id \notin IdsIn(layer1Results.canBeModified)

\* an item with two modifications rescued by the substitution alone
C12_Witness ==
  /\ pc = "layer1"
  /\ \E k \in DOMAIN menuData :
        /\ menuData[k].id \in IdsIn(layer1Results.canBeModified)
        /\ Len(menuData[k].modifications) = 2
        /\ Len(TriggeredModifications(menuData[k], profile)) = 1
        /\ TriggeredModifications(menuData[k], profile)[1].action = "substitute"

\* ------------------------------------------------------------------------
\* C13: in the first pass an avoided allergen declared on a component is
\* reported intolerable there unless a tolerated flag is declared on that
\* component and is a related form of the allergen (sesame: sesame_seed,
\* sesame_oil; peanut: peanut_oil; gluten: soy_sauce; shellfish:
\* oyster_sauce).  An item without modifications whose one component
\* declares sesame with sesame_oil only is filtered with an intolerable
\* sesame reason when no flag is tolerated, and safe with a tolerated-form
\* reason when sesame_oil is tolerated.
\* ------------------------------------------------------------------------
RelatedForms(allergen) ==
  IF allergen = "sesame" THEN {"sesame_seed", "sesame_oil"}
  ELSE IF allergen = "peanut" THEN {"peanut_oil"}
  ELSE IF allergen = "gluten" THEN {"soy_sauce"}
  ELSE IF allergen = "shellfish" THEN {"oyster_sauce"}
  ELSE {}

TolerableIn(component, allergen, p) ==
  p.tolerateFlags \cap component.contains_ingredient_flags
     \cap RelatedForms(allergen) # {}

\* the allergens a verdict reports as intolerable in a component
ReportedIntolerable(verdict, component) ==
  UNION {r.what : r \in {x \in ReasonsOf(verdict) :
                            x.kind = "intolerable" /\ x.component = component.name}}

ReportedTolerated(verdict, component) ==
  UNION {r.what : r \in {x \in ReasonsOf(verdict) :
                            x.kind = "tolerated_form" /\ x.component = component.name}}

SesameOilOnly(item) ==
  /\ Len(item.components) = 1
  /\ item.components[1].contains_allergens = {"sesame"}
  /\ item.components[1].contains_ingredient_flags = {"sesame_oil"}
  /\ item.modifications = << >>

C13_TolerableIffRelatedFormOnComponent ==
  FirstPassDone =>
    \A k \in DOMAIN menuData :
       LET item == menuData[k]
           verdicts == VerdictsOf(layer1Results, item.id)
       IN /\ verdicts # {}
          /\ \A v \in verdicts :
                \A c \in DOMAIN item.components :
                   \A allergen \in item.components[c].contains_allergens
                                     \cap profile.avoidAllergens :
                      TolerableIn(item.components[c], allergen, profile)
                        <=> allergen \notin ReportedIntolerable(v, item.components[c])
          /\ ( /\ SesameOilOnly(item)
               /\ profile.avoidAllergens = {"sesame"}
               /\ profile.avoidIngredientFlags = {} )
             => /\ profile.tolerateFlags = {} =>
                     /\ item.id \in IdsIn(layer1Results.filtered)
                     /\ \A v \in verdicts :
                           ReportedIntolerable(v, item.components[1]) = {"sesame"}
                /\ "sesame_oil" \in profile.tolerateFlags =>
                     /\ item.id \in IdsIn(layer1Results.safe)
                     /\ \A v \in verdicts :
                           /\ ReportedTolerated(v, item.components[1]) = {"sesame"}
                           /\ ReportedIntolerable(v, item.components[1]) = {}

\* the sesame-oil item made safe by the tolerated flag
C13_Witness ==
  /\ pc = "layer1"
  /\ SesameOilOnly(menuData[1])
  /\ profile.avoidAllergens = {"sesame"}
  /\ profile.avoidIngredientFlags = {}
  /\ profile.tolerateFlags = {"sesame_oil"}
  /\ IdsIn(layer1Results.safe) = {1}

\* ------------------------------------------------------------------------
\* C14: in filterByTolerance, for an avoided allergen with an affirmative
\* tolerance, a filtered item stays filtered when some component declaring
\* the allergen lacks the designated tolerated flag or carries another
\* related form of the allergen, on the same component or on another one.
\* ------------------------------------------------------------------------
DesignatedFlag(allergen) ==
  IF allergen = "gluten" THEN "soy_sauce"
  ELSE IF allergen = "shellfish" THEN "oyster_sauce"
  ELSE IF allergen = "peanut" THEN "peanut_oil"
  ELSE "sesame_oil"

LacksToleratedForm(component, allergen) ==
  /\ allergen \in component.contains_allergens
  /\ DesignatedFlag(allergen) \notin component.contains_ingredient_flags

CarriesOtherForm(component, allergen) ==
  /\ allergen \in component.contains_allergens
  /\ (component.contains_ingredient_flags \cap RelatedForms(allergen))
        \ {DesignatedFlag(allergen)} # {}

C14_MixedFormsStayFiltered ==
  pc = "layer2" =>
    \A k \in DOMAIN menuData :
       \A allergen \in profile.avoidAllergens \cap tolerances.yes :
          ( /\ menuData[k].id \in IdsIn(layer1Results.filtered)
            /\ \E c \in DOMAIN menuData[k].components :
                  \/ LacksToleratedForm(menuData[k].components[c], allergen)
                  \/ CarriesOtherForm(menuData[k].components[c], allergen) )
          => /\ menuData[k].id \in IdsIn(refinedResults.filtered)
             /\ menuData[k].id \notin IdsIn(refinedResults.safe)

\* sesame oil on one component and sesame seed on another
C14_Witness ==
  /\ pc = "layer2"
  /\ "sesame" \in profile.avoidAllergens \cap tolerances.yes
  /\ \E k \in DOMAIN menuData :
        /\ menuData[k].id \in IdsIn(layer1Results.filtered)
        /\ Len(menuData[k].components) = 2
        /\ menuData[k].components[1].contains_ingredient_flags = {"sesame_oil"}
        /\ menuData[k].components[1].contains_allergens = {"sesame"}
        /\ CarriesOtherForm(menuData[k].components[2], "sesame")
        /\ menuData[k].id \in IdsIn(refinedResults.filtered)

\* ------------------------------------------------------------------------
\* C15: in a report, for every avoided allergen a, safeByAllergy has an
\* entry for a and every item of safeForAll is in safeByAllergy[a].
\* ------------------------------------------------------------------------
C15_SafeForAllIsSafeForEach ==
  ReportBuilt =>
    \A allergen \in profile.avoidAllergens :
       /\ allergen \in DOMAIN report.safeByAllergy
       /\ IdsIn(report.safeForAll) \subseteq IdsIn(report.safeByAllergy[allergen])

\* several allergens avoided, an item safe for all of them, and another
\* safe for one allergen only
C15_Witness ==
  /\ pc = "reported"
  /\ Cardinality(profile.avoidAllergens) > 1
  /\ report.safeForAll # << >>
  /\ \E allergen \in profile.avoidAllergens :
        IdsIn(report.safeByAllergy[allergen]) \ IdsIn(report.safeForAll) # {}

\* ------------------------------------------------------------------------
\* C16: in the wizard, after any clicks, Next and Back, every key of
\* state.tolerance_answers is a selected allergen, every flag of
\* state.tolerateFlags is the mapped flag of a selected allergen answered
\* Yes, and every flag of state.avoidIngredientFlags is the mapped flag of
\* a selected allergen answered No.
\* ------------------------------------------------------------------------
SelectedAllergens ==
  {state.avoidAllergens[k] : k \in DOMAIN state.avoidAllergens} \ {"none"}

MappedFlag(allergen) ==
  IF allergen = "gluten" THEN "soy_sauce"
  ELSE IF allergen = "shellfish" THEN "oyster_sauce"
  ELSE IF allergen = "peanut" THEN "peanut_oil"
  ELSE IF allergen = "sesame" THEN "sesame_oil"
  ELSE "none"

AnsweredWith(answer) ==
  {allergen \in SelectedAllergens \cap DOMAIN state.tolerance_answers :
     state.tolerance_answers[allergen] = answer}

C16_ToleranceStateNeverStale ==
  /\ DOMAIN state.tolerance_answers \subseteq SelectedAllergens
  /\ state.tolerateFlags \subseteq {MappedFlag(a) : a \in AnsweredWith(TRUE)}
  /\ state.avoidIngredientFlags \subseteq {MappedFlag(a) : a \in AnsweredWith(FALSE)}

\* back on the allergies step with one allergen answered Yes, one answered
\* No, and a third selected since
C16_Witness ==
  /\ state.step = 1
  /\ state.crossContactOk # "null"
  /\ Len(state.avoidAllergens) = 3
  /\ state.tolerateFlags # {}
  /\ state.avoidIngredientFlags # {}
  /\ Cardinality(DOMAIN state.tolerance_answers) = 2
====
